---- MODULE Spec2Model ----
(***************************************************************************)
(* Model of the JL PCO hire-agreement backend (src/app.py,                 *)
(* src/pdf_generator.py): the /api/generate-pdf request handler and the    *)
(* overlay generator it calls, as a state machine over up to two requests  *)
(* that share one file system and one clock.                               *)
(*                                                                         *)
(* Representation.                                                         *)
(*  - Lengths are integers in hundredths of a point (595.28 -> 59528);     *)
(*    normalized marker coordinates are in hundredths (0.10 -> 10), so     *)
(*    nx * 420.00 points is nx * 420 hundredths.                           *)
(*  - A Python value is a record [t, s]: t is its type ("str", "null",     *)
(*    "num", "image") and s its content.  A str is the sequence of its     *)
(*    characters; a piece of text the code never looks into is written as  *)
(*    one element ("Yes").                                                 *)
(*  - A dict is a function whose DOMAIN is its set of keys.                *)
(***************************************************************************)
EXTENDS Integers, Sequences, FiniteSets, TLC

\* ------------------------------------------------------------------ bounds
MaxPages == 4
MaxMarkers == 2
MaxClock == 1

\* --------------------------------------------------------------- constants
PAGE_WIDTH == 59528
PAGE_HEIGHT == 84189
VALUE_COLUMN_X == 46000

Req == {1, 2}

\* ------------------------------------------------------------ Python values
Str(chars) == [t |-> "str", s |-> chars]
Empty == Str(<<>>)
None == [t |-> "null", s |-> <<>>]
Num5 == [t |-> "num", s |-> <<"5">>]
ImageOf(kind) == [t |-> "image", s |-> <<kind>>]

\* Python truth value of `v` (None, '', [] are false; a PIL image, 5 are true).
Truthy(v) == ~(v.t = "null" \/ (v.t \in {"str", "list"} /\ v.s = <<>>))

\* dict.get(key, default)
Get(d, key, default) == IF key \in DOMAIN d THEN d[key] ELSE default

\* dict.get(key): None when the key is missing
Get0(d, key) == Get(d, key, None)

Whitespace == {" ", "\n"}
LettersDigits == {"J", "S", "a", "b", "A", "B", "1", "C", "D", "2"}

\* str.upper(), character by character
UpperChar(ch) == IF ch = "a" THEN "A" ELSE IF ch = "b" THEN "B" ELSE ch

\* [c for c in s if c in keep]
Filter(s, keep) == SelectSeq(s, LAMBDA ch : ch \in keep)

RECURSIVE StripLeft(_)
StripLeft(s) ==
    IF s # <<>> /\ Head(s) \in Whitespace THEN StripLeft(Tail(s)) ELSE s

RECURSIVE StripRight(_)
StripRight(s) ==
    IF s # <<>> /\ s[Len(s)] \in Whitespace
    THEN StripRight(SubSeq(s, 1, Len(s) - 1)) ELSE s

\* str.strip()
Strip(s) == StripRight(StripLeft(s))

\* s[:n]
Prefix(s, n) == SubSeq(s, 1, IF Len(s) < n THEN Len(s) ELSE n)

\* The places where `sep` occurs in s (no separator used here overlaps itself)
Occurrences(s, sep) ==
    {i \in 1..(Len(s) - Len(sep) + 1) : SubSeq(s, i, i + Len(sep) - 1) = sep}

\* The k-th smallest element of a set of numbers
Nth(S, k) == CHOOSE p \in S : Cardinality({q \in S : q < p}) = k - 1

\* str.split(sep): the pieces between the occurrences of sep
Split(s, sep) ==
    LET occ == Occurrences(s, sep)
        m == Cardinality(occ)
        start(j) == IF j = 1 THEN 1 ELSE Nth(occ, j - 1) + Len(sep)
        stop(j) == IF j = m + 1 THEN Len(s) ELSE Nth(occ, j) - 1
    IN  [j \in 1..(m + 1) |-> SubSeq(s, start(j), stop(j))]

RECURSIVE Replace(_, _, _)
\* str.replace(old, new) for a one-character `old`, by halves
Replace(s, old, new) ==
    IF Len(s) = 0 THEN <<>>
    ELSE IF Len(s) = 1 THEN (IF s = old THEN new ELSE s)
    ELSE Replace(SubSeq(s, 1, Len(s) \div 2), old, new)
           \o Replace(SubSeq(s, Len(s) \div 2 + 1, Len(s)), old, new)

RECURSIVE Join(_, _)
\* sep.join(parts)
Join(parts, sep) ==
    IF Len(parts) = 0 THEN <<>>
    ELSE IF Len(parts) = 1 THEN parts[1]
    ELSE parts[1] \o sep \o Join(Tail(parts), sep)

\* [l.strip() for l in lines if l.strip()]
StripNonEmpty(lines) ==
    SelectSeq([i \in 1..Len(lines) |-> Strip(lines[i])], LAMBDA l : l # <<>>)

\* ------------------------------------------------------------------ canvas
\* Colours are RGB in tenths.
black == <<0, 0, 0>>
MarkerFill == <<10, 0, 0>>
MarkerStroke == <<6, 0, 0>>
white == <<10, 10, 10>>

\* canvas.Canvas(...): reportlab's initial graphics state (black fill and
\* stroke, line width 1, Helvetica 12), nothing drawn, no exception raised.
NewCanvas ==
    [font |-> <<"Helvetica", 12>>, fill |-> black, stroke |-> black,
     lw |-> 100, ops |-> <<>>, err |-> ""]

\* A statement on a canvas is skipped while an exception propagates (err # "").
setFont(c, name, size) == IF c.err # "" THEN c ELSE [c EXCEPT !.font = <<name, size>>]
setFillColor(c, rgb) == IF c.err # "" THEN c ELSE [c EXCEPT !.fill = rgb]
setStrokeColor(c, rgb) == IF c.err # "" THEN c ELSE [c EXCEPT !.stroke = rgb]
setLineWidth(c, w) == IF c.err # "" THEN c ELSE [c EXCEPT !.lw = w]
Raise(c, e) == IF c.err # "" THEN c ELSE [c EXCEPT !.err = e]

\* One element of the page: what is drawn, where, and the state it is drawn in.
Drawn(c, what, x, y, text) ==
    [op |-> what, x |-> x, y |-> y, text |-> text,
     fill |-> c.fill, stroke |-> c.stroke, lw |-> c.lw, font |-> c.font]

Draw(c, what, x, y, text) ==
    IF c.err # "" THEN c ELSE [c EXCEPT !.ops = Append(@, Drawn(c, what, x, y, text))]

\* c.drawString(x, y, text): reportlab raises on a text that is no str
drawString(c, x, y, text) ==
    IF text.t # "str" THEN Raise(c, "TypeError") ELSE Draw(c, "string", x, y, text.s)

\* c.drawCentredString(x, y, text)
drawCentredString(c, x, y, text) ==
    IF text.t # "str" THEN Raise(c, "TypeError") ELSE Draw(c, "centred", x, y, text.s)

\* c.circle(x, y, 10, fill=1, stroke=1)
circle(c, x, y) == Draw(c, "circle", x, y, <<>>)

\* c.drawImage(path, x, y, width=140, height=45, ...)
drawImage(c, x, y, who) == Draw(c, "image", x, y, <<who>>)

\* create_overlay_pdf lines 45-47: the base state of every overlay page
BaseCanvas == setFillColor(setFont(NewCanvas, "Helvetica", 10), black)

convert_y(top_from_top) == PAGE_HEIGHT - top_from_top

\* str(text)
PyStr(v) == Str(v.s)

draw_cell_text(c, text, cell_top, cell_bottom) ==
    IF ~Truthy(text) THEN c
    ELSE drawString(c, VALUE_COLUMN_X, convert_y(cell_top + 1800), PyStr(text))

RECURSIVE DrawCells(_, _, _)
\* a run of draw_cell_text(c, data.get(key, ''), top, bottom) statements
DrawCells(c, data, cells) ==
    IF cells = <<>> THEN c
    ELSE DrawCells(draw_cell_text(c, Get(data, Head(cells)[1], Empty),
                                  Head(cells)[2], Head(cells)[3]),
                   data, Tail(cells))

Page1Cells ==
    << <<"insurance_provider", 21700, 24500>>, <<"policy_start", 27200, 30000>>,
       <<"policy_expiry", 32700, 35500>>, <<"cover_level", 38200, 41000>>,
       <<"deposit_amount", 49700, 52500>>, <<"deposit_date", 55200, 58000>>,
       <<"deposit_payment_type", 60700, 63500>> >>

Page2HirerCells ==
    << <<"full_name", 16400, 19200>>, <<"dob", 21000, 23800>> >>

Page2ContactCells ==
    << <<"email", 33000, 35800>>, <<"phone_number", 37600, 40400>>,
       <<"pco_badge_number", 42200, 45000>> >>

Page2LicenceCells ==
    << <<"licence_number", 46800, 49600>>, <<"licence_expiry", 51400, 54200>>,
       <<"ni_number", 56000, 58800>> >>

Page2VehicleCells ==
    << <<"vehicle_reg", 66300, 69100>>, <<"make_model", 70900, 73700>>,
       <<"vin_number", 75500, 78300>>, <<"hire_start", 80100, 82900>> >>

CommaSpace == <<",", " ">>
Ellipsis == <<".", ".", ".">>

\* lines 77-80: flatten the address to one line, cut it to 57 + '...' over 60
AddressText(s) ==
    LET lines == Split(Replace(s, <<"\n">>, CommaSpace), CommaSpace)
        text == Join(StripNonEmpty(lines), CommaSpace)
    IN  IF Len(text) > 60 THEN Prefix(text, 57) \o Ellipsis ELSE text

\* lines 75-81
DrawAddress(c, data) ==
    LET address == Get(data, "address", Empty)
    IN  IF ~Truthy(address) THEN c
        ELSE IF address.t # "str" THEN Raise(c, "AttributeError")
        ELSE draw_cell_text(c, Str(AddressText(address.s)), 25600, 30200)

\* create_overlay_pdf, page_num == 1, before draw_signatures
DrawPage1(c, data) == DrawCells(c, data, Page1Cells)

\* create_overlay_pdf, page_num == 2, before draw_signatures
DrawPage2(c, data) ==
    DrawCells(
      DrawCells(
        DrawCells(DrawAddress(DrawCells(c, data, Page2HirerCells), data),
                  data, Page2ContactCells),
        data, Page2LicenceCells),
      data, Page2VehicleCells)

\* --------------------------------------------------------- damage markers
car_x_start == 6926
car_y_start == 12700
car_width == 420
car_height == 250

\* lines 116-120: the marker's (nx, ny), or the exception unpacking it raises
MarkerXY(marker) ==
    IF marker.t = "list"
    THEN IF Len(marker.s) = 2
         THEN [err |-> "", nx |-> marker.s[1], ny |-> marker.s[2]]
         ELSE [err |-> "ValueError", nx |-> 0, ny |-> 0]
    ELSE IF marker.t = "dict"
    THEN [err |-> "", nx |-> Get(marker.s, "x", 0), ny |-> Get(marker.s, "y", 0)]
    ELSE [err |-> "AttributeError", nx |-> 0, ny |-> 0]

pdf_x(nx) == car_x_start + (nx * car_width)

\* pdf_y measured from the top of the page: convert_y left out
pdf_y_FromTop(ny) == car_y_start + (ny * car_height)

pdf_y(ny) == convert_y(car_y_start + (ny * car_height))

\* lines 114-135, one iteration: i is enumerate's 0-based index
DrawMarker(c, i, marker) ==
    LET xy == MarkerXY(marker)
        x == pdf_x(xy.nx)
        y == pdf_y(xy.ny)
        c1 == setLineWidth(setStrokeColor(setFillColor(c, MarkerFill), MarkerStroke), 150)
        c2 == circle(c1, x, y)
        c3 == setFont(setFillColor(c2, white), "Helvetica-Bold", 9)
    IN  IF xy.err # "" THEN Raise(c, xy.err)
        ELSE drawCentredString(c3, x, y - 300, Str(<<ToString(i + 1)>>))

RECURSIVE MarkerLoop(_, _, _)
\* for i, marker in enumerate(markers), from index i on
MarkerLoop(c, markers, i) ==
    IF i >= Len(markers) THEN c
    ELSE MarkerLoop(DrawMarker(c, i, markers[i + 1]), markers, i + 1)

\* lines 137-140
ResetAfterMarkers(c) == setLineWidth(setFont(setFillColor(c, black), "Helvetica", 10), 100)

\* lines 106-140
DrawDamageMarkers(c, data) ==
    LET markers == Get(data, "damage_markers", [t |-> "list", s |-> <<>>])
    IN  IF ~Truthy(markers) THEN c
        ELSE ResetAfterMarkers(MarkerLoop(c, markers.s, 0))

NoteY == <<convert_y(5400), convert_y(7800), convert_y(10200)>>

RECURSIVE NoteLines(_, _, _)
\* lines 147-149: for i, line in enumerate(lines[:3])
NoteLines(c, lines, i) ==
    IF i >= Len(lines) \/ i >= 3 THEN c
    ELSE NoteLines(IF Strip(lines[i + 1]) # <<>>
                   THEN drawString(c, 9200, NoteY[i + 1], Str(Prefix(Strip(lines[i + 1]), 85)))
                   ELSE c,
                   lines, i + 1)

\* lines 143-149
DrawDamageNotes(c, data) ==
    LET damage_notes == Get(data, "damage_notes", Empty)
    IN  IF ~Truthy(damage_notes) THEN c
        ELSE IF damage_notes.t # "str" THEN Raise(c, "AttributeError")
        ELSE NoteLines(c, Split(damage_notes.s, <<"\n">>), 0)

EquipmentCells ==
    << <<"wheel_locking_nut", 25500, 20700>>, <<"immobiliser_installed", 28500, 24300>>,
       <<"dashcam_installed", 27000, 27900>>, <<"dashcam_serial", 31000, 31500>>,
       <<"puncture_repair_kit", 25800, 35100>> >>

RECURSIVE DrawEquipment(_, _, _)
\* lines 152-156: c.drawString(x, convert_y(top), data.get(key, ''))
DrawEquipment(c, data, cells) ==
    IF cells = <<>> THEN c
    ELSE DrawEquipment(drawString(c, Head(cells)[2], convert_y(Head(cells)[3]),
                                  Get(data, Head(cells)[1], Empty)),
                       data, Tail(cells))

\* lines 143-156
DrawNotesAndEquipment(c, data) ==
    DrawEquipment(DrawDamageNotes(c, data), data, EquipmentCells)

\* ---------------------------------------------------------------- signatures
sig_line_y == convert_y(80000)
sig_width == 14000
sig_height == 4500
SigX(who) == IF who = "hirer" THEN 10000 ELSE 60000
DateX(who) == IF who = "hirer" THEN 36000 ELSE 92000

\* lines 186-188 and 205-207
DrawSigDate(c, data, who) ==
    LET date == Get(data, who \o "_sig_date", Empty)
    IN  IF Truthy(date) THEN drawString(c, DateX(who), sig_line_y + 3500, date) ELSE c

\* ------------------------------------------------------- signature decoder
\* base64.b64decode(text): the bytes, or "raise" for text that is no base64
B64Decode(text) ==
    IF text = <<>> THEN "empty"
    ELSE IF text = <<"b64:png">> THEN "png"
    ELSE IF text = <<"b64:truncated-png">> THEN "truncated-png"
    ELSE IF text = <<"b64:text">> THEN "text"
    ELSE "raise"

\* Image.open(BytesIO(img_data)) reads the header only: an image whose pixel
\* data is cut short still opens.
ImageOpen(bytes) ==
    IF bytes \in {"png", "truncated-png"} THEN ImageOf(bytes) ELSE None

\* app.py process_signature: every exception of lines 277-287 is caught
process_signature(sig_base64) ==
    IF ~Truthy(sig_base64) THEN None
    ELSE IF sig_base64.t # "str" THEN None
    ELSE LET payload == IF \E i \in 1..Len(sig_base64.s) : sig_base64.s[i] = ","
                        THEN Split(sig_base64.s, <<",">>)[2]
                        ELSE sig_base64.s
             img_data == B64Decode(payload)
         IN  IF img_data = "raise" THEN None ELSE ImageOpen(img_data)

\* pil_image.save(path, 'PNG') decodes the pixel data: it raises on a
\* truncated image
PilSaveRaises(pil_image) == pil_image.s # <<"png">>

\* ----------------------------------------------------------- authentication
\* verify_token without the expiry check
verify_token_NoExpiry(token) ==
    IF token \in {<<"jwt.valid">>, <<"jwt.expired">>} THEN [user_id |-> "admin"] ELSE <<>>

\* jwt.decode(token, SECRET_KEY): the payload, or None (lines 67-73)
verify_token(token) ==
    IF token = <<"jwt.valid">> THEN [user_id |-> "admin"] ELSE <<>>

\* require_auth lines 80-94: the status it answers, 0 when it calls f
AuthStatus(auth_header) ==
    IF ~Truthy(auth_header) THEN 401
    ELSE IF Len(Split(auth_header.s, <<" ">>)) < 2 THEN 401
    ELSE IF verify_token(Split(auth_header.s, <<" ">>)[2]) = <<>> THEN 401
    ELSE 0

\* ----------------------------------------------------------------- request
required == <<"full_name", "vehicle_reg", "make_model">>

\* line 182: [f for f in required if not data.get(f)]
missing(data) == SelectSeq(required, LAMBDA f : ~Truthy(Get0(data, f)))

CopiedKeys ==
    {"full_name", "dob", "address", "licence_number", "licence_expiry", "ni_number",
     "vehicle_reg", "make_model", "vin_number", "hire_start",
     "insurance_provider", "policy_start", "policy_expiry", "cover_level",
     "deposit_amount", "deposit_date", "deposit_payment_type",
     "damage_notes", "wheel_locking_nut", "immobiliser_installed",
     "dashcam_installed", "dashcam_serial", "puncture_repair_kit",
     "hirer_sig_date", "lessor_sig_date"}

\* lines 194-234: the dict handed to the generator
PdfData(data, hirer_sig, lessor_sig) ==
    [k \in CopiedKeys |-> Get(data, k, Empty)]
    @@ [damage_markers |-> Get(data, "damage_markers", [t |-> "list", s |-> <<>>]),
        hirer_signature |-> hirer_sig,
        lessor_signature |-> lessor_sig]

\* str.upper()
Upper(s) == [i \in 1..Len(s) |-> UpperChar(s[i])]

\* lines 237, 241
safe_reg(vehicle_reg) ==
    Filter(Replace(Upper(Strip(vehicle_reg)), <<" ">>, <<>>), LettersDigits)

\* lines 238, 242
safe_name(full_name) ==
    Filter(Replace(Strip(full_name), <<" ">>, <<"_">>), LettersDigits \cup {"_"})

\* lines 239-245: date_str has the resolution of one second
OutputPath(data, now) ==
    <<"tmp/", "JL_PCO_Hire_">> \o safe_reg(data["vehicle_reg"].s) \o <<"_">>
      \o safe_name(data["full_name"].s) \o <<"_", ToString(now), ".pdf">>

\* tempfile.NamedTemporaryFile(suffix=..., delete=False).name: a name no
\* other file has or had, written as the request and the count of its names
TempName(r, n, suffix) == <<"tmp/", "tmp", ToString(r), ToString(n), suffix>>

IsSigTemp(path) == path[Len(path)] = ".png"

\* The six possible_paths of lines 214-221, by position
SearchPaths == 1..6

\* FirstExisting falling back on the first search path instead of failing
FirstExisting_Fallback(found) ==
    IF found = {} THEN 1 ELSE CHOOSE i \in found : \A j \in found : i <= j

\* lines 223-227: the first path that exists, 0 when there is none
FirstExisting(found) ==
    IF found = {} THEN 0 ELSE CHOOSE i \in found : \A j \in found : i <= j

\* ------------------------------------------------------------------ inputs
Text(x) == Str(<<x>>)

BadHeaders ==
    {None, Empty, Text("Bearer"), Str(<<"Bearer", " ", "jwt.expired">>),
     Str(<<"Bearer", " ", "jwt.forged">>)}
GoodHeader == Str(<<"Bearer", " ", "jwt.valid">>)

RegValues == {Str(<<"a", "b", " ", "1">>), Str(<<"A", "B", "1">>), Str(<<"C", "D", "2">>)}
NameValues == {Str(<<"J", " ", "S">>), Str(<<"J", "_", "S">>)}

BaseBody ==
    [full_name |-> Str(<<"J", " ", "S">>), vehicle_reg |-> Str(<<"a", "b", " ", "1">>),
     make_model |-> Text("Prius")]

\* A key mapped to Absent is left out of the dict.
Absent == [t |-> "absent", s |-> <<>>]
Dict(f) == [k \in {x \in DOMAIN f : f[x] # Absent} |-> f[k]]

SigInputs ==
    {Absent, Empty, Text("@@@"), Text("b64:text"), Text("b64:truncated-png"),
     Text("b64:png"), Str(<<"data:image/png;base64", ",", "b64:png">>)}

DateInputs == {<<Empty, Empty>>, <<Text("2026-01-01"), Text("2026-01-02")>>,
               <<Num5, Empty>>, <<None, Text("2026-01-02")>>}

MarkerValues ==
    {[t |-> "list", s |-> <<10, 20>>], [t |-> "dict", s |-> [x |-> 90, y |-> 80]],
     [t |-> "list", s |-> <<150, -50>>], [t |-> "list", s |-> <<10, 20, 30>>]}

MarkerLists == UNION {[1..n -> MarkerValues] : n \in 0..MaxMarkers}

LongAddress == [i \in 1..61 |-> "x"]

OptionalText ==
    {"dob", "licence_number", "licence_expiry", "ni_number", "vin_number", "hire_start",
     "insurance_provider", "policy_start", "policy_expiry", "cover_level",
     "deposit_amount", "deposit_date", "deposit_payment_type"}

EquipmentKeys ==
    {"wheel_locking_nut", "immobiliser_installed", "dashcam_installed",
     "dashcam_serial", "puncture_repair_kit"}

EquipmentInputs ==
    {[k \in EquipmentKeys |-> Absent], [k \in EquipmentKeys |-> Text("Yes")],
     [k \in EquipmentKeys |-> IF k = "dashcam_serial" THEN None ELSE Text("Yes")]}

NotesInputs ==
    {Absent, Str(<<" ", "dent", "\n", " ", "\n", "scratch", "\n", "chip", "\n", "more">>)}

\* Bodies that lack a required field
BodiesMissing ==
    {Dict([full_name |-> n, vehicle_reg |-> v, make_model |-> m]) :
        n \in {Absent, Empty, Text("J")}, v \in {Absent, None, Text("1")},
        m \in {Absent, Empty, Text("Prius")}}
    \ {Dict([full_name |-> Text("J"), vehicle_reg |-> Text("1"), make_model |-> Text("Prius")])}

GoodSig == Text("b64:png")

\* Bodies that vary the signatures, and bodies that vary their dates
BodiesSignature ==
    {BaseBody @@ Dict([hirer_signature |-> h, lessor_signature |-> l,
                       hirer_sig_date |-> Text("2026-01-01"),
                       lessor_sig_date |-> Text("2026-01-02")]) :
        h \in SigInputs, l \in SigInputs}
    \cup {BaseBody @@ Dict([hirer_signature |-> GoodSig,
                            hirer_sig_date |-> d[1], lessor_sig_date |-> d[2]]) :
        d \in DateInputs}

\* Bodies that vary the vehicle-condition page: the markers, the notes, the
\* equipment fields
BodiesCondition ==
    {BaseBody @@ [damage_markers |-> [t |-> "list", s |-> m]] : m \in MarkerLists}
    \cup {BaseBody @@ Dict([damage_notes |-> n]) : n \in NotesInputs}
    \cup {BaseBody @@ Dict(e) @@ [damage_markers |-> [t |-> "list", s |-> m]] :
            e \in EquipmentInputs, m \in {<<>>, <<[t |-> "list", s |-> <<10, 20>>]>>}}

\* Bodies that vary the text fields of pages 1 and 2: the contact fields, the
\* address, the name and registration
BodiesText ==
    {BaseBody
       @@ Dict([email |-> IF "email" \in ct THEN Text("j@s.uk") ELSE Absent,
                phone_number |-> IF "phone_number" \in ct THEN Text("0770") ELSE Empty,
                pco_badge_number |-> IF "pco_badge_number" \in ct THEN Text("PCO9") ELSE Absent])
       @@ Dict([k \in OptionalText |-> o]) :
        ct \in SUBSET {"email", "phone_number", "pco_badge_number"},
        o \in {Absent, Text("v")}}
    \cup {BaseBody @@ Dict([address |-> a]) :
            a \in {Str(<<"1", " ", "\n", " ", "L", ",", " ", " ">>), Str(LongAddress)}}
    \cup {[full_name |-> n, vehicle_reg |-> v, make_model |-> Text("Prius")] :
            n \in NameValues, v \in RegValues \cup {Num5}}

NoRequest == [present |-> FALSE, auth |-> None, body |-> <<>>]
HttpRequest(h, b) == [present |-> TRUE, auth |-> h, body |-> b]

Requests ==
    {HttpRequest(h, BaseBody) : h \in BadHeaders}
    \cup {HttpRequest(GoodHeader, b) :
            b \in BodiesMissing \cup BodiesSignature \cup BodiesCondition \cup BodiesText}

Templates == {[found |-> f, pages |-> n] : f \in {{}, {2, 5}}, n \in 1..MaxPages}

\* ------------------------------------------------------------------- state
VARIABLES
    request,    \* the /api/generate-pdf requests in flight
    template,   \* which search paths hold a template, and its page count
    clock,      \* datetime.now(), in seconds
    tmpSeq,     \* temporary names handed out so far, by request
    files,      \* the file system: path -> content
    events,     \* every file operation so far: <<request, operation, path>>
    pc,         \* each request's position in the code
    status,     \* the HTTP status answered, 0 while there is none
    error,      \* the exception that ended the request, "" when none
    calls,      \* process_signature / generator calls made for the request
    local       \* the local variables of the request's frames

vars == <<request, template, clock, tmpSeq, files, events, pc, status, error, calls, local>>

NoLocals ==
    [hirer_sig |-> None, lessor_sig |-> None, pdf_data |-> <<>>, output_path |-> <<>>,
     template_path |-> 0, npages |-> 0, page_num |-> 0, writer |-> <<>>,
     overlay_path |-> <<>>, c |-> NewCanvas, who |-> "", temp_path |-> <<>>,
     sent |-> <<>>]

InitCommon ==
    /\ clock = 0
    /\ tmpSeq = [r \in Req |-> 0]
    /\ files = <<>>
    /\ events = {}
    /\ pc = [r \in Req |-> IF request[r].present THEN "auth" ELSE "idle"]
    /\ status = [r \in Req |-> 0]
    /\ error = [r \in Req |-> ""]
    /\ calls = [r \in Req |-> <<>>]
    /\ local = [r \in Req |-> NoLocals]

\* One request, any input
Init ==
    /\ request \in {[r \in Req |-> IF r = 1 THEN q ELSE NoRequest] : q \in Requests}
    /\ template \in Templates
    /\ InitCommon

\* ----------------------------------------------------------------- actions
Write(path, content) == (path :> content) @@ files
Unlink(path) == [q \in DOMAIN files \ {path} |-> files[q]]
Event(r, ops, path) == events \cup {<<r, o, path>> : o \in ops}

Goto(r, where) == pc' = [pc EXCEPT ![r] = where]

\* An exception leaves generate_pdf through its except clause: lines 261-268
Fail(r, e) ==
    /\ pc' = [pc EXCEPT ![r] = "done"]
    /\ status' = [status EXCEPT ![r] = 500]
    /\ error' = [error EXCEPT ![r] = e]

\* The answer of a return statement
Answer(r, code) ==
    /\ pc' = [pc EXCEPT ![r] = "done"]
    /\ status' = [status EXCEPT ![r] = code]
    /\ error' = error

\* Where a drawing step goes: on, or out with the exception it raised
After(r, c, where) ==
    IF c.err # "" THEN Fail(r, c.err)
    ELSE Goto(r, where) /\ UNCHANGED <<status, error>>

\* app.py require_auth, lines 78-99
require_auth(r) ==
    /\ pc[r] = "auth"
    /\ IF AuthStatus(request[r].auth) # 0
       THEN Answer(r, AuthStatus(request[r].auth))
       ELSE Goto(r, "validate") /\ UNCHANGED <<status, error>>
    /\ UNCHANGED <<request, template, clock, tmpSeq, files, events, calls, local>>

\* app.py generate_pdf, lines 178-187
ValidateRequired(r) ==
    /\ pc[r] = "validate"
    /\ IF missing(request[r].body) # <<>>
       THEN Answer(r, 400)
       ELSE Goto(r, "signatures") /\ UNCHANGED <<status, error>>
    /\ UNCHANGED <<request, template, clock, tmpSeq, files, events, calls, local>>

\* app.py generate_pdf, lines 190-191
ProcessSignatures(r) ==
    /\ pc[r] = "signatures"
    /\ local' = [local EXCEPT
           ![r].hirer_sig = process_signature(Get0(request[r].body, "hirer_signature")),
           ![r].lessor_sig = process_signature(Get0(request[r].body, "lessor_signature"))]
    /\ calls' = [calls EXCEPT ![r] = @ \o <<"process_signature", "process_signature">>]
    /\ Goto(r, "prepare")
    /\ UNCHANGED <<request, template, clock, tmpSeq, files, events, status, error>>

\* app.py generate_pdf, lines 194-245
PreparePdfData(r) ==
    /\ pc[r] = "prepare"
    /\ LET data == request[r].body
       IN  IF data["vehicle_reg"].t # "str" \/ data["full_name"].t # "str"
           THEN Fail(r, "AttributeError") /\ local' = local
           ELSE /\ local' = [local EXCEPT
                       ![r].pdf_data = PdfData(data, local[r].hirer_sig, local[r].lessor_sig),
                       ![r].output_path = OutputPath(data, clock)]
                /\ Goto(r, "generate")
                /\ UNCHANGED <<status, error>>
    /\ UNCHANGED <<request, template, clock, tmpSeq, files, events, calls>>

\* pdf_generator.py generate_hire_agreement_pdf_mobile, lines 213-234
ResolveTemplate(r) ==
    /\ pc[r] = "generate"
    /\ calls' = [calls EXCEPT ![r] = Append(@, "generate_hire_agreement_pdf_mobile")]
    /\ IF FirstExisting(template.found) = 0
       THEN Fail(r, "FileNotFoundError") /\ local' = local
       ELSE /\ local' = [local EXCEPT
                   ![r].template_path = FirstExisting(template.found),
                   ![r].npages = template.pages,
                   ![r].writer = <<>>,
                   ![r].page_num = 1]
            /\ Goto(r, "page")
            /\ UNCHANGED <<status, error>>
    /\ UNCHANGED <<request, template, clock, tmpSeq, files, events>>

\* PageBranch with the condition page as the branch of every later page
PageBranch_LastElse(page_num) ==
    IF page_num = 1 \/ page_num = 2 THEN "fields" ELSE "markers"

\* Where create_overlay_pdf goes after lines 45-47
PageBranch(page_num) ==
    IF page_num = 1 \/ page_num = 2 THEN "fields"
    ELSE IF page_num = 3 THEN "markers"
    ELSE "save"

\* lines 239-240 and create_overlay_pdf lines 45-47
StartPage(r) ==
    /\ pc[r] = "page"
    /\ LET path == TempName(r, tmpSeq[r], ".pdf")
       IN  /\ files' = Write(path, <<>>)
           /\ events' = Event(r, {"create"}, path)
           /\ local' = [local EXCEPT ![r].overlay_path = path, ![r].c = BaseCanvas]
    /\ tmpSeq' = [tmpSeq EXCEPT ![r] = @ + 1]
    /\ Goto(r, PageBranch(local[r].page_num))
    /\ UNCHANGED <<request, template, clock, status, error, calls>>

\* create_overlay_pdf lines 49-62 (page 1) and 66-97 (page 2)
DrawFields(r) ==
    /\ pc[r] = "fields"
    /\ LET c == IF local[r].page_num = 1
                THEN DrawPage1(local[r].c, local[r].pdf_data)
                ELSE DrawPage2(local[r].c, local[r].pdf_data)
       IN  /\ local' = [local EXCEPT ![r].c = c, ![r].who = "hirer"]
           /\ After(r, c, "signature")
    /\ UNCHANGED <<request, template, clock, tmpSeq, files, events, calls>>

\* create_overlay_pdf lines 106-140
DrawMarkers(r) ==
    /\ pc[r] = "markers"
    /\ LET c == DrawDamageMarkers(local[r].c, local[r].pdf_data)
       IN  /\ local' = [local EXCEPT ![r].c = c]
           /\ After(r, c, "equipment")
    /\ UNCHANGED <<request, template, clock, tmpSeq, files, events, calls>>

\* create_overlay_pdf lines 143-156
DrawEquipmentFields(r) ==
    /\ pc[r] = "equipment"
    /\ LET c == DrawNotesAndEquipment(local[r].c, local[r].pdf_data)
       IN  /\ local' = [local EXCEPT ![r].c = c, ![r].who = "hirer"]
           /\ After(r, c, "signature")
    /\ UNCHANGED <<request, template, clock, tmpSeq, files, events, calls>>

\* Where draw_signatures goes after one party's signature and date
NextParty(who) == IF who = "hirer" THEN "signature" ELSE "save"
Other(who) == IF who = "hirer" THEN "lessor" ELSE "hirer"

\* draw_signatures lines 172-174 (191-193), with save_pil_image_to_temp
\* lines 36-41; without a signature, the date of lines 186-188 (205-207)
SaveSignature(r) ==
    /\ pc[r] = "signature"
    /\ LET who == local[r].who
           sig == Get0(local[r].pdf_data, who \o "_signature")
           path == TempName(r, tmpSeq[r], ".png")
           c == DrawSigDate(local[r].c, local[r].pdf_data, who)
       IN  IF ~Truthy(sig)
           THEN /\ local' = [local EXCEPT ![r].c = c, ![r].who = Other(who)]
                /\ After(r, c, NextParty(who))
                /\ UNCHANGED <<tmpSeq, files, events>>
           ELSE /\ tmpSeq' = [tmpSeq EXCEPT ![r] = @ + 1]
                /\ IF PilSaveRaises(sig)
                   THEN /\ files' = Write(path, <<>>)
                        /\ events' = Event(r, {"create"}, path)
                        /\ local' = local
                        /\ Fail(r, "OSError")
                   ELSE /\ files' = Write(path, sig.s)
                        /\ events' = Event(r, {"create", "write"}, path)
                        /\ local' = [local EXCEPT ![r].temp_path = path]
                        /\ Goto(r, "image")
                        /\ UNCHANGED <<status, error>>
    /\ UNCHANGED <<request, template, clock, calls>>

\* draw_signatures lines 175-188 (194-207): drawImage may raise, which is
\* swallowed; the finally clause unlinks the temporary file
DrawSignature(r) ==
    /\ pc[r] = "image"
    /\ \E drawn \in BOOLEAN :
         LET who == local[r].who
             path == local[r].temp_path
             c1 == IF drawn THEN drawImage(local[r].c, SigX(who), sig_line_y, who)
                   ELSE local[r].c
             c == DrawSigDate(c1, local[r].pdf_data, who)
         IN  /\ files' = IF path \in DOMAIN files THEN Unlink(path) ELSE files
             /\ events' = Event(r, IF path \in DOMAIN files THEN {"read", "unlink"}
                                   ELSE {"read"}, path)
             /\ local' = [local EXCEPT ![r].c = c, ![r].who = Other(who)]
             /\ After(r, c, NextParty(who))
    /\ UNCHANGED <<request, template, clock, tmpSeq, calls>>

\* create_overlay_pdf lines 161-162: c.save() writes the one-page overlay
SaveOverlay(r) ==
    /\ pc[r] = "save"
    /\ files' = Write(local[r].overlay_path, <<local[r].c.ops>>)
    /\ events' = Event(r, {"write"}, local[r].overlay_path)
    /\ Goto(r, "merge")
    /\ UNCHANGED <<request, template, clock, tmpSeq, status, error, calls, local>>

\* template_page.merge_page(overlay): the template page with the overlay on top
Merged(page_num, overlay) == [template |-> page_num, overlay |-> overlay]

\* generate_hire_agreement_pdf_mobile lines 243-248, and the loop's next turn
MergePage(r) ==
    /\ pc[r] = "merge"
    /\ LET path == local[r].overlay_path
           overlay_reader == files[path]
           page == IF Len(overlay_reader) > 0
                   THEN Merged(local[r].page_num, overlay_reader[1])
                   ELSE Merged(local[r].page_num, <<>>)
       IN  /\ files' = Unlink(path)
           /\ events' = Event(r, {"read", "unlink"}, path)
           /\ local' = [local EXCEPT ![r].writer = Append(@, page),
                                     ![r].page_num = @ + 1]
    /\ Goto(r, IF local[r].page_num < local[r].npages THEN "page" ELSE "write")
    /\ UNCHANGED <<request, template, clock, tmpSeq, status, error, calls>>

\* generate_hire_agreement_pdf_mobile lines 251-254: open() may fail
WriteOutput(r) ==
    /\ pc[r] = "write"
    /\ \E writable \in BOOLEAN :
         IF writable
         THEN /\ files' = Write(local[r].output_path, local[r].writer)
              /\ events' = Event(r, {"write"}, local[r].output_path)
              /\ Goto(r, "send")
              /\ UNCHANGED <<status, error>>
         ELSE /\ Fail(r, "PermissionError")
              /\ UNCHANGED <<files, events>>
    /\ UNCHANGED <<request, template, clock, tmpSeq, calls, local>>

\* app.py generate_pdf lines 251-259: send_file reads output_path
SendFile(r) ==
    /\ pc[r] = "send"
    /\ events' = Event(r, {"read"}, local[r].output_path)
    /\ local' = [local EXCEPT ![r].sent = files[local[r].output_path]]
    /\ Answer(r, 200)
    /\ UNCHANGED <<request, template, clock, tmpSeq, files, calls>>

\* A second passes; the clock is read at line 239 only
Tick ==
    /\ clock < MaxClock
    /\ \E r \in Req : pc[r] \in {"auth", "validate", "signatures", "prepare"}
    /\ clock' = clock + 1
    /\ UNCHANGED <<request, template, tmpSeq, files, events, pc, status, error, calls, local>>

Next ==
    \/ \E r \in Req :
         \/ require_auth(r)
         \/ ValidateRequired(r)
         \/ ProcessSignatures(r)
         \/ PreparePdfData(r)
         \/ ResolveTemplate(r)
         \/ StartPage(r)
         \/ DrawFields(r)
         \/ DrawMarkers(r)
         \/ DrawEquipmentFields(r)
         \/ SaveSignature(r)
         \/ DrawSignature(r)
         \/ SaveOverlay(r)
         \/ MergePage(r)
         \/ WriteOutput(r)
         \/ SendFile(r)
    \/ Tick

Spec == Init /\ [][Next]_vars

\* ------------------------------------------------- two concurrent requests
OneMarker == [t |-> "list", s |-> <<[t |-> "list", s |-> <<10, 20>>]>>]

RequestsConc ==
    {HttpRequest(Str(<<"Bearer", " ", "jwt.forged">>), BaseBody),
     HttpRequest(GoodHeader, [full_name |-> Text("J")]),
     HttpRequest(GoodHeader, BaseBody @@ [hirer_signature |-> GoodSig, damage_markers |-> OneMarker])}

\* The other request: the same client again (the registration typed another
\* way), or another hirer
RequestsOther ==
    {HttpRequest(GoodHeader, [full_name |-> Str(<<"J", " ", "S">>), vehicle_reg |-> v,
                              make_model |-> Text("Prius"), lessor_signature |-> GoodSig]) :
        v \in {Str(<<"A", "B", "1">>), Str(<<"C", "D", "2">>)}}

TemplatesConc == {[found |-> {2, 5}, pages |-> 3]}

\* Two requests in flight at once
InitConc ==
    /\ request \in {[r \in Req |-> IF r = 1 THEN q ELSE o] : q \in RequestsConc, o \in RequestsOther}
    /\ template \in TemplatesConc
    /\ InitCommon

SpecConc == InitConc /\ [][Next]_vars

\* ------------------------------------------------------------------ claims
Generator == "generate_hire_agreement_pdf_mobile"
Called(r, f) == \E i \in 1..Len(calls[r]) : calls[r][i] = f
EventsOf(r) == {e \in events : e[1] = r}
Markers(r) == Get(request[r].body, "damage_markers", [t |-> "list", s |-> <<>>]).s
Only(ops, what) == SelectSeq(ops, LAMBDA o : o.op = what)

\* What create_overlay_pdf draws on page i before the signatures
PageFields(i, data) ==
    IF i = 1 THEN DrawPage1(BaseCanvas, data).ops
    ELSE IF i = 2 THEN DrawPage2(BaseCanvas, data).ops
    ELSE IF i = 3 THEN DrawNotesAndEquipment(DrawDamageMarkers(BaseCanvas, data), data).ops
    ELSE <<>>

\* C1: the pages written so far are the template's pages in order, each with
\* the overlay of its own page number on top (the page's fields first, then
\* the signatures); a page after the third has an empty overlay and raises
\* nothing; a finished generation has written, and sent, all P pages.
C1_PagesInTemplateOrder ==
    \A r \in Req :
      LET w == local[r].writer
      IN  /\ \A i \in 1..Len(w) :
                /\ w[i].template = i
                /\ i > 3 => w[i].overlay = <<>>
                /\ Len(w[i].overlay) >= Len(PageFields(i, local[r].pdf_data))
                /\ SubSeq(w[i].overlay, 1, Len(PageFields(i, local[r].pdf_data)))
                     = PageFields(i, local[r].pdf_data)
          /\ (error[r] # "" /\ local[r].page_num > 3) =>
                (Len(w) = template.pages /\ error[r] = "PermissionError")
          /\ pc[r] = "send" =>
                (Len(w) = template.pages /\ files[local[r].output_path] = w)
          /\ status[r] = 200 => (Len(local[r].sent) = template.pages /\ local[r].sent = w)

C1_Witness ==
    /\ status[1] = 200
    /\ template.pages = 4
    /\ local[1].sent[4] = Merged(4, <<>>)
    /\ local[1].sent[2].overlay # <<>>

\* C2: with no template at any of the six search paths the generator ends
\* with the template-not-found error, and the request has created, written
\* or read no file.
C2_NoTemplateNoFile ==
    \A r \in Req :
      (template.found = {} /\ Called(r, Generator)) =>
         /\ pc[r] = "done"
         /\ error[r] = "FileNotFoundError"
         /\ status[r] = 500
         /\ EventsOf(r) = {}
         /\ DOMAIN files = {}
         /\ local[r].writer = <<>>

C2_Witness ==
    /\ template.found = {}
    /\ Called(1, Generator)
    /\ error[1] = "FileNotFoundError"

\* C3: no request ends because of its signature: writing a signature image
\* to its temporary file never raises out of the generation.
C3_SignatureNeverAborts ==
    \A r \in Req : error[r] # "OSError"

\* C4: outside the draw of one signature no signature temporary file exists.
C4_NoSignatureTempRemains ==
    \A r \in Req :
      pc[r] # "image" =>
         {p \in DOMAIN files : IsSigTemp(p) /\ <<r, "create", p>> \in events} = {}

\* The k-th submitted marker's normalized coordinates
MarkerNx(m) == IF m.t = "list" THEN m.s[1] ELSE m.s.x
MarkerNy(m) == IF m.t = "list" THEN m.s[2] ELSE m.s.y

\* C5: on a written page 3 there are exactly N circles and N labels for the N
\* submitted markers, the k-th at (69.26 + nx*420, 841.89 - (127 + ny*250))
\* with label k, kept in input order, duplicates and out-of-range values
\* included; pages other than 3 carry no circle and no label.
C5_MarkersInInputOrder ==
    \A r \in Req :
      \A i \in 1..Len(local[r].writer) :
        LET circles == Only(local[r].writer[i].overlay, "circle")
            labels == Only(local[r].writer[i].overlay, "centred")
            m == Markers(r)
        IN  IF i # 3 THEN circles = <<>> /\ labels = <<>>
            ELSE /\ Len(circles) = Len(m)
                 /\ Len(labels) = Len(m)
                 /\ \A k \in 1..Len(m) :
                      /\ circles[k].x = 6926 + MarkerNx(m[k]) * 420
                      /\ circles[k].y = 84189 - (12700 + MarkerNy(m[k]) * 250)
                      /\ labels[k].text = <<ToString(k)>>
                      /\ labels[k].x = circles[k].x
                      /\ labels[k].y = circles[k].y - 300

C5_Witness ==
    /\ Len(local[1].writer) >= 3
    /\ Markers(1) = <<[t |-> "list", s |-> <<150, -50>>], [t |-> "list", s |-> <<150, -50>>]>>
    /\ Len(Only(local[1].writer[3].overlay, "circle")) = 2

\* C6: once the generator runs, only a missing template or a failed write of
\* the output ends the request with an error; a field or a marker that cannot
\* be rendered does not.  (The signature image of C3 is left aside.)
C6_FieldFailureNeverAborts ==
    \A r \in Req :
      (Called(r, Generator) /\ error[r] # "" /\ error[r] # "OSError") =>
         error[r] \in {"FileNotFoundError", "PermissionError"}

AuthOK(r) == request[r].auth = Str(<<"Bearer", " ", "jwt.valid">>)
RequiredPresent(r) ==
    \A k \in {"full_name", "vehicle_reg", "make_model"} :
       k \in DOMAIN request[r].body /\ request[r].body[k] \notin {Empty, None}

\* C7: the signature decoder and the generator are called only for a request
\* whose token is valid and unexpired and whose three required fields are
\* non-empty; any other request ends with 401 (token) or 400 (field), with no
\* call made and no file touched.
C7_AuthAndValidationFirst ==
    \A r \in Req :
      /\ calls[r] # <<>> => (AuthOK(r) /\ RequiredPresent(r))
      /\ pc[r] \notin {"idle", "auth", "validate", "done"} => (AuthOK(r) /\ RequiredPresent(r))
      /\ (pc[r] = "done" /\ ~AuthOK(r)) =>
            (status[r] = 401 /\ calls[r] = <<>> /\ EventsOf(r) = {})
      /\ (pc[r] = "done" /\ AuthOK(r) /\ ~RequiredPresent(r)) =>
            (status[r] = 400 /\ calls[r] = <<>> /\ EventsOf(r) = {})

C7_Witness ==
    /\ Called(1, Generator)
    /\ Called(1, "process_signature")
    /\ AuthOK(1) /\ RequiredPresent(1)

\* C8: no path that one request creates or writes is touched by the other.
C8_NoSharedPath ==
    \A e \in events : \A f \in events :
       (e[2] \in {"create", "write"} /\ e[3] = f[3]) => e[1] = f[1]

ContactKeys == {"email", "phone_number", "pco_badge_number"}

\* C9: a contact field submitted non-empty is in the dict handed to the
\* generator.
C9_ContactFieldsHandedOver ==
    \A r \in Req :
      Called(r, Generator) =>
         \A k \in ContactKeys :
            Truthy(Get(request[r].body, k, Empty)) =>
               (k \in DOMAIN local[r].pdf_data /\ local[r].pdf_data[k] = request[r].body[k])

\* C10: after the marker loop over a non-empty list the canvas is in the base
\* state of the page: fill, stroke, line width and font.
C10_BaseStateAfterMarkers ==
    \A r \in Req :
      (pc[r] = "equipment" /\ Markers(r) # <<>>) =>
         /\ local[r].c.fill = BaseCanvas.fill
         /\ local[r].c.stroke = BaseCanvas.stroke
         /\ local[r].c.lw = BaseCanvas.lw
         /\ local[r].c.font = BaseCanvas.font

\* What draw_signatures puts on a page: the signature images, and the date
\* strings on the line 35 points above sig_line_y
SignatureImages(ops) == SelectSeq(ops, LAMBDA o : o.op = "image")
SignatureDates(ops) ==
    SelectSeq(ops, LAMBDA o : o.op = "string" /\ o.y = sig_line_y + 3500
                               /\ o.x \in {DateX("hirer"), DateX("lessor")})

InPage(x, y) == 0 <= x /\ x <= PAGE_WIDTH /\ 0 <= y /\ y <= PAGE_HEIGHT

\* C11: every signature image drawn has its box (x .. x+140, y .. y+45)
\* inside the page rectangle, and every signature date is anchored inside it.
C11_SignaturePlacementsInPage ==
    \A r \in Req :
      LET ops == local[r].c.ops
          images == SignatureImages(ops)
          dates == SignatureDates(ops)
      IN  /\ \A k \in 1..Len(images) :
                /\ InPage(images[k].x, images[k].y)
                /\ InPage(images[k].x + sig_width, images[k].y + sig_height)
          /\ \A k \in 1..Len(dates) : InPage(dates[k].x, dates[k].y)

====
